---- MODULE Spec2Model ----
(***************************************************************************)
(* A model of uWS::HttpParser (src/src/HttpParser.h): the head tokenizer   *)
(* getHeaders, the framing logic of fenceAndConsumePostPadded and the      *)
(* session driver consumePostPadded, run over byte streams that a caller   *)
(* delivers in chunks of its own choosing.                                 *)
(*                                                                         *)
(* Bytes are naturals (their ASCII codes), buffers are sequences of bytes  *)
(* indexed from 1.  A std::string_view is a record [null, str]: null says  *)
(* that data() is nullptr, str holds the bytes viewed.                     *)
(***************************************************************************)
EXTENDS Integers, Sequences, FiniteSets, TLC

VARIABLES
    input,                      \* the byte stream of the connection
    layout,                     \* the messages of input: where they start and end
    policy,                     \* what the application's handlers do
    pos,                        \* bytes of input delivered so far
    fallback,                   \* HttpParser::fallback
    remainingStreamingBytes,    \* HttpParser::remainingStreamingBytes
    log,                        \* every handler invocation so far, in order
    ret,                        \* what the last consumePostPadded call returned
    bytewise                    \* every chunk delivered so far was one byte long

vars == <<input, layout, policy, pos, fallback, remainingStreamingBytes, log, ret, bytewise>>

----------------------------------------------------------------------------
(* Byte values the parser tests for. *)

CR == 13
LF == 10
SP == 32
COLON == 58
QMARK == 63
DIGIT0 == 48
DIGIT9 == 57

MAX_HEADERS == 50
MAX_FALLBACK_SIZE == 4096

(* An unsigned int (32 bits) is a record [hi, lo]: hi holds its two highest *)
(* bits, which remainingStreamingBytes reserves for the chunked-encoding   *)
(* state, and lo its 30 low bits.                                          *)
STATE_SIZE_MASK == 1073741823
U32(hi, lo) == [hi |-> hi, lo |-> lo]
Zero32 == U32(0, 0)
UINT_MAX == U32(3, STATE_SIZE_MASK)

(* The values a consumePostPadded call or a handler can return. *)
USER == "user"
FULLPTR == "FULLPTR"
CLOSED == "closedOrUpgraded"
ERRRET == "errorHandlerResult"
\* where the code's behaviour is undefined (an index past the input)
UNDEFINED == "undefined"

(* The header names fenceAndConsumePostPadded looks up. *)
Str_host == <<104, 111, 115, 116>>
Str_transfer_encoding ==
    <<116, 114, 97, 110, 115, 102, 101, 114, 45, 101, 110, 99, 111, 100, 105, 110, 103>>
Str_content_length ==
    <<99, 111, 110, 116, 101, 110, 116, 45, 108, 101, 110, 103, 116, 104>>

NullView == [null |-> TRUE, str |-> <<>>]
View(bytes) == [null |-> FALSE, str |-> bytes]

Min2(a, b) == IF a < b THEN a ELSE b

----------------------------------------------------------------------------
(* HttpParser::toUnsignedInteger *)

\* at most nine digits are accumulated, so the value stays below 2^30
RECURSIVE toUnsignedIntegerFrom(_, _, _)
toUnsignedIntegerFrom(str, k, acc) ==
    IF k > Len(str) THEN U32(0, acc)
    ELSE IF str[k] < DIGIT0 \/ str[k] > DIGIT9 THEN UINT_MAX
    ELSE toUnsignedIntegerFrom(str, k + 1, acc * 10 + (str[k] - DIGIT0))

\* a parser that takes one digit more
toUnsignedInteger_tenDigits(str) ==
    IF Len(str) > 10 THEN UINT_MAX ELSE toUnsignedIntegerFrom(str, 1, 0)

toUnsignedInteger(str) ==
    IF Len(str) > 9 THEN UINT_MAX ELSE toUnsignedIntegerFrom(str, 1, 0)

----------------------------------------------------------------------------
(* HttpParser::getHeaders over data[1..Len(data)], behind the fence '\r'  *)
(* that fenceAndConsumePostPadded writes at data[length] (line 287):       *)
(* `end' is Len(data) + 1 and byteAt reads the fence there.  The tokenizer *)
(* ORs the bytes of every name it scans with 32 in place; the model keeps  *)
(* the ranges it has scanned (lowered) and applies them to the region      *)
(* where the code reads the bytes again (lowerNames).                      *)

byteAt(data, k) == IF k = Len(data) + 1 THEN CR ELSE data[k]

\* *(postPaddedBuffer++) |= 32
Or32(b) == IF (b \div 32) % 2 = 0 THEN b + 32 ELSE b

\* where the key scan of line 251 stops: the first ':' or byte <= 32
KeyStop(b) == b = COLON \/ b <= SP
KeyEnd(data, p) ==
    CHOOSE q \in p..(Len(data) + 1) :
        KeyStop(byteAt(data, q)) /\ \A k \in p..(q - 1) : ~KeyStop(data[k])

\* where the skip loop of line 261 stops
ValueSkip(b) == (b = COLON \/ b < SP + 1) /\ b # CR
ValueStart(data, s) ==
    CHOOSE v \in s..(Len(data) + 1) :
        ~ValueSkip(byteAt(data, v)) /\ \A k \in s..(v - 1) : ValueSkip(data[k])

\* memchr_r(p, end): the first '\r' in [p, end), 0 for nullptr
memchr_r(data, p, end) ==
    IF \E r \in p..(end - 1) : data[r] = CR
    THEN CHOOSE r \in p..(end - 1) : data[r] = CR /\ \A k \in p..(r - 1) : data[k] # CR
    ELSE 0

\* the name data[p..q-1] as line 251 leaves it
loweredName(data, p, q) == [k \in 1..(q - p) |-> Or32(data[p + k - 1])]

\* the region after the tokenizer has run over it
lowerNames(data, lowered) ==
    [k \in 1..Len(data) |->
        IF \E r \in lowered : r[1] <= k /\ k < r[2] THEN Or32(data[k]) ELSE data[k]]

EmptyKeyHeader == [key |-> <<>>, value |-> <<>>]

\* the tokenizer between two iterations of its loop: p is postPaddedBuffer,
\* i the loop counter, headers the slots written, lowered the names scanned;
\* returned says that it has returned, and consumed what
getHeadersStart ==
    [p |-> 1, i |-> 0, headers |-> <<>>, lowered |-> {}, returned |-> FALSE, consumed |-> 0]

\* a tokenizer that takes a blank line for the end of a head before any
\* request line (line 253 without i > 0)
getHeadersStep_blankFirst(data, s) ==
    LET end == Len(data) + 1
        \* lines 264-270: the value starts at v, r is the '\r' found after it
        value(q, v, r, low) ==
            IF r # 0 /\ byteAt(data, r + 1) = LF
            THEN [s EXCEPT !.p = r + 2, !.i = s.i + 1, !.lowered = low,
                           !.headers = Append(@, [key |-> loweredName(data, s.p, q),
                                                  value |-> SubSeq(data, v, r - 1)])]
            ELSE [s EXCEPT !.returned = TRUE, !.consumed = 0, !.lowered = low]
        \* lines 260-263
        skip(q, v, low) == value(q, v, memchr_r(data, v, end), low)
        \* lines 252-259: the key scan has stopped at q
        key(q, low) ==
            IF byteAt(data, q) = CR
            THEN IF q # end /\ byteAt(data, q + 1) = LF
                 THEN [s EXCEPT !.returned = TRUE, !.consumed = (q + 2) - 1, !.lowered = low,
                                !.headers = Append(@, EmptyKeyHeader)]
                 ELSE [s EXCEPT !.returned = TRUE, !.consumed = 0, !.lowered = low]
            ELSE skip(q, ValueStart(data, q + 1), low)
        scan(q) == key(q, s.lowered \cup {<<s.p, q>>})
    IN  scan(KeyEnd(data, s.p))

\* lines 251-272: one iteration of the loop
getHeadersStep(data, s) ==
    LET end == Len(data) + 1
        \* lines 264-270: the value starts at v, r is the '\r' found after it
        value(q, v, r, low) ==
            IF r # 0 /\ byteAt(data, r + 1) = LF
            THEN [s EXCEPT !.p = r + 2, !.i = s.i + 1, !.lowered = low,
                           !.headers = Append(@, [key |-> loweredName(data, s.p, q),
                                                  value |-> SubSeq(data, v, r - 1)])]
            ELSE [s EXCEPT !.returned = TRUE, !.consumed = 0, !.lowered = low]
        \* lines 260-263
        skip(q, v, low) == value(q, v, memchr_r(data, v, end), low)
        \* lines 252-259: the key scan has stopped at q
        key(q, low) ==
            IF byteAt(data, q) = CR
            THEN IF q # end /\ byteAt(data, q + 1) = LF /\ s.i > 0
                 THEN [s EXCEPT !.returned = TRUE, !.consumed = (q + 2) - 1, !.lowered = low,
                                !.headers = Append(@, EmptyKeyHeader)]
                 ELSE [s EXCEPT !.returned = TRUE, !.consumed = 0, !.lowered = low]
            ELSE skip(q, ValueStart(data, q + 1), low)
        scan(q) == key(q, s.lowered \cup {<<s.p, q>>})
    IN  scan(KeyEnd(data, s.p))

\* n iterations of the loop, or fewer if the tokenizer returns in one
RECURSIVE getHeadersLoop(_, _, _)
getHeadersLoop(data, s, n) ==
    IF s.returned \/ n = 0 THEN s
    ELSE IF n = 1 THEN getHeadersStep(data, s)
    ELSE getHeadersLoop(data, getHeadersLoop(data, s, n \div 2), n - n \div 2)

\* a tokenizer whose loop runs once more (line 250 with <=)
getHeaders_oneMore(data) ==
    LET out(s) ==
            [consumed |-> IF s.returned THEN s.consumed ELSE 0,
             headers |-> s.headers, lowered |-> s.lowered]
    IN  out(getHeadersLoop(data, getHeadersStart, MAX_HEADERS + 1))

\* getHeaders(data, data + length, req->headers, reserved): the loop of line
\* 250 runs at most MAX_HEADERS times, and line 273 returns 0 after it
getHeaders(data) ==
    LET out(s) ==
            [consumed |-> IF s.returned THEN s.consumed ELSE 0,
             headers |-> s.headers, lowered |-> s.lowered]
    IN  out(getHeadersLoop(data, getHeadersStart, MAX_HEADERS))

----------------------------------------------------------------------------
(* HttpRequest: the bloom filter and getHeader.  BloomFilter.h is not part *)
(* of the sources at hand; the filter is modelled by its contract (no      *)
(* false negatives), as the set of the names added to it.                  *)

\* the loop of lines 299-301: every key up to the first empty one is added
RECURSIVE bfAddFrom(_, _, _)
bfAddFrom(headers, h, bf) ==
    IF h > Len(headers) \/ Len(headers[h].key) = 0 THEN bf
    ELSE bfAddFrom(headers, h + 1, bf \cup {headers[h].key})

bfOf(headers) == bfAddFrom(headers, 2, {})

mightHave(bf, name) == name \in bf

\* the loop of lines 100-104: slot 0 (headers[1] here) is skipped, the scan
\* ends at the first empty key
RECURSIVE getHeaderFrom(_, _, _)
getHeaderFrom(headers, h, name) ==
    IF h > Len(headers) \/ Len(headers[h].key) = 0 THEN NullView
    ELSE IF headers[h].key = name THEN View(headers[h].value)
    ELSE getHeaderFrom(headers, h + 1, name)

getHeader(headers, name) ==
    IF mightHave(bfOf(headers), name) THEN getHeaderFrom(headers, 2, name) ELSE NullView

\* lines 323-324: the offset of the first '?' in the target, or its length
querySeparatorOf(target) ==
    IF \E k \in 1..Len(target) : target[k] = QMARK
    THEN (CHOOSE k \in 1..Len(target) :
              target[k] = QMARK /\ \A j \in 1..(k - 1) : target[j] # QMARK) - 1
    ELSE Len(target)

\* the accessors of HttpRequest a request handler reads the request line
\* with (lines 108-119): slot 0 of the table is headers[1] here
getUrl(headers, querySeparator) == SubSeq(headers[1].value, 1, querySeparator)
getFullUrl(headers) == headers[1].value
getCaseSensitiveMethod(headers) == headers[1].key

\* lines 194-199: '-', a digit or an ASCII letter
isFieldNameByte(x) ==
    \/ x = 45
    \/ (x > 47 /\ x < 58)
    \/ (x > 64 /\ x < 91)
    \/ (x > 96 /\ x < 123)

----------------------------------------------------------------------------
(* The chunked-encoding decoder (uWS::ChunkIterator, ChunkedEncoding.h) is *)
(* not part of the sources at hand.  It is modelled from its description:  *)
(* the two high bits of the state are the substate (1: reading a size      *)
(* line, 3: reading chunk data and its CRLF, 2: dropping the trailer,      *)
(* 0: idle), the 30 low bits the bytes left, which count the chunk's CRLF. *)

STATE_IS_CHUNKED == U32(1, 0)

isParsingChunkedEncoding(state) == state.hi # 0
isParsingInvalidChunkedEncoding(state) == state = UINT_MAX

HexValue(b) ==
    IF b >= 48 /\ b <= 57 THEN b - 48
    ELSE IF b >= 97 /\ b <= 102 THEN b - 87
    ELSE IF b >= 65 /\ b <= 70 THEN b - 55
    ELSE 16

\* the size line: hex digits, then everything up to and including '\n'
RECURSIVE consumeHexNumber(_, _, _)
consumeHexNumber(data, k, state) ==
    IF k > Len(data) THEN [k |-> k, state |-> state]
    ELSE IF data[k] > SP
    THEN IF HexValue(data[k]) = 16 \/ state.lo > (STATE_SIZE_MASK - 2 - HexValue(data[k])) \div 16
         THEN [k |-> k, state |-> UINT_MAX]
         ELSE consumeHexNumber(data, k + 1, U32(1, state.lo * 16 + HexValue(data[k])))
    ELSE IF data[k] # LF
    THEN consumeHexNumber(data, k + 1, state)
    ELSE [k |-> k + 1, state |-> U32(3, state.lo + 2)]

\* the chunks the iterator yields from data[k..], each with the index of its
\* first byte, the state it leaves and the index of the first byte it left
RECURSIVE ChunkIterator(_, _, _, _)
ChunkIterator(data, k, state, chunks) ==
    IF k > Len(data) \/ isParsingInvalidChunkedEncoding(state) \/ state = Zero32
    THEN [k |-> k, state |-> state, chunks |-> chunks]
    ELSE IF state.hi = 2
    THEN LET trailer(d) ==
                 IF state.lo - d = 0
                 THEN [k |-> k + d, state |-> Zero32, chunks |-> chunks]
                 ELSE [k |-> k + d, state |-> U32(2, state.lo - d), chunks |-> chunks]
         IN  trailer(Min2(Len(data) - k + 1, state.lo))
    ELSE IF state.hi = 1
    THEN LET size(h) ==
                 IF h.state.hi = 3 /\ h.state.lo = 2
                 THEN ChunkIterator(data, h.k, U32(2, 2),
                                    Append(chunks, [bytes |-> <<>>, k |-> h.k]))
                 ELSE ChunkIterator(data, h.k, h.state, chunks)
         IN  size(consumeHexNumber(data, k, state))
    ELSE IF state.lo > 2
    THEN LET part(n) ==
                 ChunkIterator(data, k + n, U32(3, state.lo - n),
                               Append(chunks, [bytes |-> SubSeq(data, k, k + n - 1), k |-> k]))
         IN  part(Min2(Len(data) - k + 1, state.lo - 2))
    ELSE IF state.lo = 2
    THEN IF data[k] = CR THEN ChunkIterator(data, k + 1, U32(3, 1), chunks)
         ELSE [k |-> k, state |-> UINT_MAX, chunks |-> chunks]
    ELSE IF data[k] = LF THEN ChunkIterator(data, k + 1, STATE_IS_CHUNKED, chunks)
         ELSE [k |-> k, state |-> UINT_MAX, chunks |-> chunks]

----------------------------------------------------------------------------
(* The application's handlers.  policy.closeReq = k makes the k-th         *)
(* requestHandler call return something other than user (the connection   *)
(* was closed or upgraded), policy.closeData = k the k-th dataHandler      *)
(* call; 0 is never.  With policy.sets, a request handler calls            *)
(* setYield(true) and setParameters on the request it is given.            *)
(* A parser run is st = [rsb, log, req]: remainingStreamingBytes, the      *)
(* handler calls so far, and the didYield and currentParameters fields of  *)
(* the HttpRequest of the current consumePostPadded call.                  *)

nCalls(lg, kind) == Cardinality({i \in DOMAIN lg : lg[i].kind = kind})

requestHandlerReturn(lg) ==
    IF policy.closeReq # 0 /\ policy.closeReq = nCalls(lg, "req") + 1 THEN CLOSED ELSE USER

dataHandlerReturn(lg) ==
    IF policy.closeData # 0 /\ policy.closeData = nCalls(lg, "data") + 1 THEN CLOSED ELSE USER

\* HttpRequest::setYield and setParameters (lines 94-96, 149-151), as the
\* request handler of the policy calls them
handlerSets(req, n) ==
    IF policy.sets
    THEN [didYield |-> TRUE, currentParameters |-> [first |-> n, second |-> "parameters"]]
    ELSE req

\* requestHandler(user, req), line 329: the entry records what the handler
\* reads from req when it is entered (a handler that sets didYield and
\* currentParameters reads them first)
requestHandler(st, at, headers) ==
    [st EXCEPT
        !.log = Append(@, [kind |-> "req", at |-> at, headers |-> headers,
                           querySeparator |-> querySeparatorOf(headers[1].value),
                           didYield |-> IF policy.sets THEN st.req.didYield ELSE "unread",
                           currentParameters |->
                               IF policy.sets THEN st.req.currentParameters ELSE "unread",
                           ret |-> requestHandlerReturn(st.log)]),
        !.req = handlerSets(@, nCalls(st.log, "req") + 1)]

\* dataHandler(user, chunk, isEnd)
dataHandler(st, at, bytes, isEnd) ==
    [st EXCEPT
        !.log = Append(@, [kind |-> "data", at |-> at, bytes |-> bytes,
                           isEnd |-> isEnd, ret |-> dataHandlerReturn(st.log)])]

\* errorHandler(user)
errorHandler(st, at) ==
    [st EXCEPT !.log = Append(@, [kind |-> "error", at |-> at, ret |-> ERRRET])]

lastReturn(st) == st.log[Len(st.log)].ret

\* a parser that does not look at what requestHandler returned
returnedUser_ignored(s1) == USER

\* lines 329-333: void *returnedUser = requestHandler(user, req), the value
\* that is compared with user; s1 is the run after the call
returnedUser(s1) == lastReturn(s1)

\* a parser that calls no dataHandler for a request without a body
noBody_silent(st, at) == st

\* lines 390-393: dataHandler(user, {}, true)
noBody(st, at) == dataHandler(st, at, <<>>, TRUE)

\* for (auto chunk : ChunkIterator(...)) dataHandler(user, chunk, chunk.length() == 0);
RECURSIVE emitChunks(_, _, _, _)
emitChunks(st, at, chunks, i) ==
    IF i > Len(chunks) THEN st
    ELSE emitChunks(dataHandler(st, at + chunks[i].k - 1, chunks[i].bytes,
                                Len(chunks[i].bytes) = 0),
                    at, chunks, i + 1)

----------------------------------------------------------------------------
(* HttpParser::fenceAndConsumePostPadded<CONSUME_MINIMALLY>.  data is the  *)
(* region still to parse, at the offset of its first byte in the stream.   *)
(* The result is the returned pair [consumed, ret], the run st, and buf:   *)
(* the bytes of the region from the last head tokenized on, as the         *)
(* tokenizer left them (the caller stashes them or keeps them as the       *)
(* fallback buffer).                                                       *)

Result(consumed, r, st, buf) == [consumed |-> consumed, ret |-> r, st |-> st, buf |-> buf]

\* a parser that tests the length of the host value, not its data()
hostMissing_emptyValue(headers) == Len(getHeader(headers, Str_host).str) = 0

\* lines 303-306
hostMissing(headers) == getHeader(headers, Str_host).null

\* lines 313-320
framingConflict(headers) ==
    /\ Len(getHeader(headers, Str_transfer_encoding).str) # 0
    /\ Len(getHeader(headers, Str_content_length).str) # 0

\* lines 344-393: the body that follows a head whose request handler
\* returned user.  rest are the bytes after the head.  The value of
\* dataHandler is not looked at here.
bodyAfterHead(minimal, headers, rest, at, st) ==
    LET \* lines 353-362: the chunks the iterator it has found in rest
        chunks(it) ==
            [err |-> isParsingInvalidChunkedEncoding(it.state),
             st |-> [emitChunks(st, at, it.chunks, 1) EXCEPT !.rsb = it.state],
             used |-> it.k - 1]
        \* lines 381-387
        emit(n, emittable) ==
            [err |-> FALSE,
             st |-> [dataHandler(st, at, SubSeq(rest, 1, emittable), emittable = n.lo)
                        EXCEPT !.rsb = U32(0, n.lo - emittable)],
             used |-> emittable]
        \* lines 375-380: remainingStreamingBytes = toUnsignedInteger(...)
        length(n) ==
            IF n = UINT_MAX
            THEN [err |-> TRUE, st |-> [st EXCEPT !.rsb = n], used |-> 0]
            ELSE IF minimal
            THEN [err |-> FALSE, st |-> [st EXCEPT !.rsb = n], used |-> 0]
            ELSE emit(n, Min2(n.lo, Len(rest)))
        framing(te, cl) ==
            IF Len(te.str) # 0
            THEN IF minimal
                 THEN [err |-> FALSE, st |-> [st EXCEPT !.rsb = STATE_IS_CHUNKED], used |-> 0]
                 ELSE chunks(ChunkIterator(rest, 1, STATE_IS_CHUNKED, <<>>))
            ELSE IF Len(cl.str) # 0
            THEN length(toUnsignedInteger(cl.str))
            ELSE [err |-> FALSE, st |-> noBody(st, at), used |-> 0]
    IN  framing(getHeader(headers, Str_transfer_encoding),
                getHeader(headers, Str_content_length))

\* what one iteration of the loop of line 289 comes to: the function
\* returns result, or the loop goes on with data, at, consumedTotal and st
Return(result) == [again |-> FALSE, result |-> result]
Again(data, at, consumedTotal, st) ==
    [again |-> TRUE, data |-> data, at |-> at, consumedTotal |-> consumedTotal, st |-> st]

\* a loop that does not advance data and length by what the tokenizer has
\* consumed (lines 290-292 left out)
loopIteration_noAdvance(minimal, data, at, consumedTotal, st) ==
    LET body(gh, buf, rest, b) ==
            IF b.err THEN Return(Result(0, FULLPTR, b.st, buf))
            ELSE IF minimal
            THEN Return(Result(consumedTotal + gh.consumed + b.used, USER, b.st, buf))
            ELSE Again(data, at, consumedTotal, b.st)
        handled(gh, buf, s1, rest) ==
            IF returnedUser(s1) # USER
            THEN Return(Result(consumedTotal + gh.consumed, returnedUser(s1), s1, buf))
            ELSE body(gh, buf, rest,
                      bodyAfterHead(minimal, gh.headers, rest, at + gh.consumed, s1))
        head(gh, buf) ==
            IF gh.consumed = 0 THEN Return(Result(consumedTotal, USER, st, buf))
            ELSE IF hostMissing(gh.headers) THEN Return(Result(0, FULLPTR, st, buf))
            ELSE IF framingConflict(gh.headers) THEN Return(Result(0, FULLPTR, st, buf))
            ELSE handled(gh, buf, requestHandler(st, at, gh.headers),
                         SubSeq(data, gh.consumed + 1, Len(data)))
        tokenized(gh) == head(gh, lowerNames(data, gh.lowered))
    IN  tokenized(getHeaders(data))

\* lines 289-399: one iteration of the loop, entered with length # 0
loopIteration(minimal, data, at, consumedTotal, st) ==
    LET \* lines 344-398: b is what the body after the head came to
        body(gh, buf, rest, b) ==
            IF b.err THEN Return(Result(0, FULLPTR, b.st, buf))
            ELSE IF minimal
            THEN Return(Result(consumedTotal + gh.consumed + b.used, USER, b.st, buf))
            ELSE Again(SubSeq(rest, b.used + 1, Len(rest)),
                       at + gh.consumed + b.used,
                       consumedTotal + gh.consumed + b.used, b.st)
        \* lines 329-342: s1 is the run after requestHandler was called
        handled(gh, buf, s1, rest) ==
            IF returnedUser(s1) # USER
            THEN Return(Result(consumedTotal + gh.consumed, returnedUser(s1), s1, buf))
            ELSE body(gh, buf, rest,
                      bodyAfterHead(minimal, gh.headers, rest, at + gh.consumed, s1))
        \* lines 289-327: gh is what getHeaders returned
        head(gh, buf) ==
            IF gh.consumed = 0 THEN Return(Result(consumedTotal, USER, st, buf))
            ELSE IF hostMissing(gh.headers) THEN Return(Result(0, FULLPTR, st, buf))
            ELSE IF framingConflict(gh.headers) THEN Return(Result(0, FULLPTR, st, buf))
            ELSE handled(gh, buf, requestHandler(st, at, gh.headers),
                         SubSeq(data, gh.consumed + 1, Len(data)))
        tokenized(gh) == head(gh, lowerNames(data, gh.lowered))
    IN  tokenized(getHeaders(data))

\* the loop: it ends when length is 0 (line 289), else it runs an iteration
RECURSIVE fenceAndConsumePostPadded(_, _, _, _, _)
fenceAndConsumePostPadded(minimal, data, at, consumedTotal, st) ==
    IF Len(data) = 0 THEN Result(consumedTotal, USER, st, data)
    ELSE
      LET next(it) ==
              IF it.again
              THEN fenceAndConsumePostPadded(minimal, it.data, it.at, it.consumedTotal, it.st)
              ELSE it.result
      IN  next(loopIteration(minimal, data, at, consumedTotal, st))

----------------------------------------------------------------------------
(* HttpParser::consumePostPadded.  A parser is [fallback, rsb, log]; the   *)
(* result adds ret, the value returned.                                    *)

Out(r, fb, st) == [ret |-> r, fallback |-> fb, rsb |-> st.rsb, log |-> st.log]

\* a parser that goes on after the chunk decoder has marked the state invalid
\* (lines 418-420 and 475-477 left out)
resumeBody_keepsOn(data, at, st) ==
    LET chunks(it, s1) ==
            [returned |-> FALSE, ret |-> USER, st |-> s1,
             rest |-> SubSeq(data, it.k, Len(data)), at |-> at + it.k - 1]
        iterated(it) ==
            chunks(it, [emitChunks(st, at, it.chunks, 1) EXCEPT !.rsb = it.state])
        \* lines 427-431 (483-487): the whole of data belongs to the body
        whole(s1) ==
            [returned |-> TRUE, ret |-> lastReturn(s1),
             st |-> [s1 EXCEPT !.rsb = U32(0, st.rsb.lo - Len(data))],
             rest |-> <<>>, at |-> at]
        \* lines 432-440 (488-496): the body ends inside data
        last(s1) ==
            [returned |-> lastReturn(s1) # USER, ret |-> lastReturn(s1),
             st |-> [s1 EXCEPT !.rsb = Zero32],
             rest |-> SubSeq(data, st.rsb.lo + 1, Len(data)), at |-> at + st.rsb.lo]
    IN  IF isParsingChunkedEncoding(st.rsb)
        THEN iterated(ChunkIterator(data, 1, st.rsb, <<>>))
        ELSE IF st.rsb.lo >= Len(data)
        THEN whole(dataHandler(st, at, data, st.rsb.lo = Len(data)))
        ELSE last(dataHandler(st, at, SubSeq(data, 1, st.rsb.lo), TRUE))

\* lines 410-442, and their copy at lines 468-499: feed data to the body in
\* progress.  returned says that consumePostPadded returns from here.
resumeBody(data, at, st) ==
    LET \* lines 412-424 (470-481): the value of dataHandler is not looked at
        chunks(it, s1) ==
            IF isParsingInvalidChunkedEncoding(it.state)
            THEN [returned |-> TRUE, ret |-> FULLPTR, st |-> s1, rest |-> <<>>, at |-> at]
            ELSE [returned |-> FALSE, ret |-> USER, st |-> s1,
                  rest |-> SubSeq(data, it.k, Len(data)), at |-> at + it.k - 1]
        iterated(it) ==
            chunks(it, [emitChunks(st, at, it.chunks, 1) EXCEPT !.rsb = it.state])
        \* lines 427-431 (483-487): the whole of data belongs to the body
        whole(s1) ==
            [returned |-> TRUE, ret |-> lastReturn(s1),
             st |-> [s1 EXCEPT !.rsb = U32(0, st.rsb.lo - Len(data))],
             rest |-> <<>>, at |-> at]
        \* lines 432-440 (488-496): the body ends inside data
        last(s1) ==
            [returned |-> lastReturn(s1) # USER, ret |-> lastReturn(s1),
             st |-> [s1 EXCEPT !.rsb = Zero32],
             rest |-> SubSeq(data, st.rsb.lo + 1, Len(data)), at |-> at + st.rsb.lo]
    IN  IF isParsingChunkedEncoding(st.rsb)
        THEN iterated(ChunkIterator(data, 1, st.rsb, <<>>))
        ELSE IF st.rsb.lo >= Len(data)
        THEN whole(dataHandler(st, at, data, st.rsb.lo = Len(data)))
        ELSE last(dataHandler(st, at, SubSeq(data, 1, st.rsb.lo), TRUE))

\* a parser that does not keep the bytes of an incomplete head
mainLoop_noStash(data, at, st, fb) ==
    LET consumed(c) == IF c.ret # USER THEN Out(c.ret, fb, c.st) ELSE Out(USER, fb, c.st)
    IN  consumed(fenceAndConsumePostPadded(FALSE, data, at, 0, st))

\* a parser that stashes a remainder of MAX_FALLBACK_SIZE bytes too
mainLoop_stashesFull(data, at, st, fb) ==
    LET consumed(c) ==
            IF c.ret # USER THEN Out(c.ret, fb, c.st)
            ELSE IF Len(data) - c.consumed # 0
            THEN IF Len(data) - c.consumed <= MAX_FALLBACK_SIZE
                 THEN Out(USER, fb \o c.buf, c.st)
                 ELSE Out(ERRRET, fb, errorHandler(c.st, at + c.consumed))
            ELSE Out(USER, fb, c.st)
    IN  consumed(fenceAndConsumePostPadded(FALSE, data, at, 0, st))

\* a parser that stashes the whole input, the heads it has consumed included
mainLoop_stashesAll(data, at, st, fb) ==
    LET consumed(c) ==
            IF c.ret # USER THEN Out(c.ret, fb, c.st)
            ELSE IF Len(data) - c.consumed # 0
            THEN IF Len(data) - c.consumed < MAX_FALLBACK_SIZE
                 THEN Out(USER, fb \o data, c.st)
                 ELSE Out(ERRRET, fb, errorHandler(c.st, at + c.consumed))
            ELSE Out(USER, fb, c.st)
    IN  consumed(fenceAndConsumePostPadded(FALSE, data, at, 0, st))

\* lines 511-528: the main loop on what is left of the input, then the stash
mainLoop(data, at, st, fb) ==
    LET consumed(c) ==
            IF c.ret # USER THEN Out(c.ret, fb, c.st)
            ELSE IF Len(data) - c.consumed # 0
            THEN IF Len(data) - c.consumed < MAX_FALLBACK_SIZE
                 THEN Out(USER, fb \o c.buf, c.st)
                 ELSE Out(ERRRET, fb, errorHandler(c.st, at + c.consumed))
            ELSE Out(USER, fb, c.st)
    IN  consumed(fenceAndConsumePostPadded(FALSE, data, at, 0, st))

\* a parser that does not clear the fallback buffer (line 464) once the head
\* in it is consumed
drainFallback_notCleared(parser, data, at, st) ==
    LET had == Len(parser.fallback)
        resumed(r, buf) ==
            IF r.returned THEN Out(r.ret, buf, r.st) ELSE mainLoop(r.rest, r.at, r.st, buf)
        rest(c, data1, at1) ==
            IF c.st.rsb # Zero32
            THEN resumed(resumeBody(data1, at1, c.st), c.buf)
            ELSE mainLoop(data1, at1, c.st, c.buf)
        consumed(c) ==
            IF c.ret # USER THEN Out(c.ret, c.buf, c.st)
            ELSE IF c.consumed # 0
            THEN IF c.consumed < had
                 THEN Out(UNDEFINED, <<>>, c.st)
                 ELSE rest(c, SubSeq(data, c.consumed - had + 1, Len(data)),
                           at + (c.consumed - had))
            ELSE IF Len(c.buf) = MAX_FALLBACK_SIZE
            THEN Out(ERRRET, c.buf, errorHandler(c.st, at))
            ELSE Out(USER, c.buf, c.st)
        copied(maxCopyDistance) ==
            consumed(fenceAndConsumePostPadded(TRUE,
                         parser.fallback \o SubSeq(data, 1, maxCopyDistance),
                         at - had, 0, st))
    IN  copied(Min2(MAX_FALLBACK_SIZE - had, Len(data)))

\* a parser that appends all of the input to the fallback buffer, whatever
\* its length (line 447 without the minimum)
drainFallback_uncapped(parser, data, at, st) ==
    LET had == Len(parser.fallback)
        resumed(r) ==
            IF r.returned THEN Out(r.ret, <<>>, r.st) ELSE mainLoop(r.rest, r.at, r.st, <<>>)
        rest(c, data1, at1) ==
            IF c.st.rsb # Zero32
            THEN resumed(resumeBody(data1, at1, c.st))
            ELSE mainLoop(data1, at1, c.st, <<>>)
        consumed(c) ==
            IF c.ret # USER THEN Out(c.ret, c.buf, c.st)
            ELSE IF c.consumed # 0
            THEN IF c.consumed < had
                 THEN Out(UNDEFINED, <<>>, c.st)
                 ELSE rest(c, SubSeq(data, c.consumed - had + 1, Len(data)),
                           at + (c.consumed - had))
            ELSE IF Len(c.buf) = MAX_FALLBACK_SIZE
            THEN Out(ERRRET, c.buf, errorHandler(c.st, at))
            ELSE Out(USER, c.buf, c.st)
        copied(maxCopyDistance) ==
            consumed(fenceAndConsumePostPadded(TRUE,
                         parser.fallback \o SubSeq(data, 1, maxCopyDistance),
                         at - had, 0, st))
    IN  copied(Len(data))

\* what the code before the main loop comes to: consumePostPadded returns
\* with out, or the main loop is entered with data, at and st
Leave(out) == [enter |-> FALSE, out |-> out]
Enter(data, at, st) == [enter |-> TRUE, data |-> data, at |-> at, st |-> st]

\* lines 444-509: the fallback buffer holds the start of a head
fallbackHead(parser, data, at, st) ==
    LET had == Len(parser.fallback)
        \* lines 468-499
        resumed(r) ==
            IF r.returned THEN Leave(Out(r.ret, <<>>, r.st)) ELSE Enter(r.rest, r.at, r.st)
        \* lines 459-466: data1 is what is left of data after the head
        rest(c, data1, at1) ==
            IF c.st.rsb # Zero32
            THEN resumed(resumeBody(data1, at1, c.st))
            ELSE Enter(data1, at1, c.st)
        \* lines 452-508
        consumed(c) ==
            IF c.ret # USER THEN Leave(Out(c.ret, c.buf, c.st))
            ELSE IF c.consumed # 0
            THEN IF c.consumed < had
                 THEN Leave(Out(UNDEFINED, <<>>, c.st))
                 ELSE rest(c, SubSeq(data, c.consumed - had + 1, Len(data)),
                           at + (c.consumed - had))
            ELSE IF Len(c.buf) = MAX_FALLBACK_SIZE
            THEN Leave(Out(ERRRET, c.buf, errorHandler(c.st, at)))
            ELSE Leave(Out(USER, c.buf, c.st))
        \* lines 446-450
        copied(maxCopyDistance) ==
            consumed(fenceAndConsumePostPadded(TRUE,
                         parser.fallback \o SubSeq(data, 1, maxCopyDistance),
                         at - had, 0, st))
    IN  copied(Min2(MAX_FALLBACK_SIZE - had, Len(data)))

\* lines 444-528: the head in the fallback buffer, then the main loop
drainFallback(parser, data, at, st) ==
    LET go(p) == IF p.enter THEN mainLoop(p.data, p.at, p.st, <<>>) ELSE p.out
    IN  go(fallbackHead(parser, data, at, st))

\* a parser that starts on the next head while a body is in progress
consumePostPadded_noResume(parser, data, at, req0) ==
    LET run(st) ==
            IF Len(parser.fallback) # 0
            THEN drainFallback(parser, data, at, st)
            ELSE mainLoop(data, at, st, parser.fallback)
    IN  run([rsb |-> parser.rsb, log |-> parser.log, req |-> req0])

\* req0 is the HttpRequest of line 408: its didYield and currentParameters
\* are not initialized
consumePostPadded(parser, data, at, req0) ==
    LET resumed(r) ==
            IF r.returned THEN Out(r.ret, parser.fallback, r.st)
            ELSE mainLoop(r.rest, r.at, r.st, parser.fallback)
        run(st) ==
            IF parser.rsb # Zero32
            THEN resumed(resumeBody(data, at, st))
            ELSE IF Len(parser.fallback) # 0
            THEN drainFallback(parser, data, at, st)
            ELSE mainLoop(data, at, st, parser.fallback)
    IN  run([rsb |-> parser.rsb, log |-> parser.log, req |-> req0])

----------------------------------------------------------------------------
(* The byte streams a connection carries: one of the messages below,       *)
(* followed by MaxPipeline - 1 further requests.  What holds after a       *)
(* prefix of a stream holds of the shorter stream: the parser has not seen *)
(* the rest.                                                               *)

Txt_GET == <<71, 69, 84>>
Txt_PUT == <<80, 85, 84>>
Txt_target == <<47, 97, 63, 120, 61, 49>>
Txt_u == <<47, 117>>
Txt_2 == <<47, 50>>
Txt_version == <<72, 84, 84, 80, 47, 49, 46, 49>>
Txt_Host == <<72, 111, 115, 116>>
Txt_Content_Length == <<67, 111, 110, 116, 101, 110, 116, 45, 76, 101, 110, 103, 116, 104>>
Txt_Transfer_Encoding ==
    <<84, 114, 97, 110, 115, 102, 101, 114, 45, 69, 110, 99, 111, 100, 105, 110, 103>>
Txt_chunked == <<99, 104, 117, 110, 107, 101, 100>>
Txt_h == <<104>>
Txt_0 == <<48>>
CRLF == <<CR, LF>>

MaxPipeline == 2
MaxBody == 2

\* a body of MaxBody bytes, "ab...", and its length in decimal
Body == [k \in 1..MaxBody |-> 96 + k]
BodyLength == <<DIGIT0 + MaxBody>>

RequestLine(method, target) == method \o <<SP>> \o target \o CRLF
Field(name, value) == name \o <<COLON>> \o value \o CRLF
Message(head, body) == [head |-> head, body |-> body]

\* "GET /a?x=1 HTTP/1.1\r\nHost: h\r\n\r\n"
MsgGet ==
    Message(Txt_GET \o <<SP>> \o Txt_target \o <<SP>> \o Txt_version \o CRLF
                \o Txt_Host \o <<COLON, SP>> \o Txt_h \o CRLF \o CRLF,
            <<>>)
\* "PUT /u\r\nHost:h\r\nContent-Length:2\r\n\r\nab"
MsgFixed ==
    Message(RequestLine(Txt_PUT, Txt_u) \o Field(Txt_Host, Txt_h)
                \o Field(Txt_Content_Length, BodyLength) \o CRLF,
            Body)
\* "PUT /u\r\nHost:h\r\nContent-Length:0\r\n\r\n"
MsgZero ==
    Message(RequestLine(Txt_PUT, Txt_u) \o Field(Txt_Host, Txt_h)
                \o Field(Txt_Content_Length, Txt_0) \o CRLF,
            <<>>)
\* "PUT /u\r\nHost:h\r\nTransfer-Encoding:chunked\r\n\r\n2\r\nab\r\n0\r\n\r\n"
MsgChunked ==
    Message(RequestLine(Txt_PUT, Txt_u) \o Field(Txt_Host, Txt_h)
                \o Field(Txt_Transfer_Encoding, Txt_chunked) \o CRLF,
            BodyLength \o CRLF \o Body \o CRLF \o Txt_0 \o CRLF \o CRLF)
\* a head without a host field: "GET /u\r\nContent-Length:0\r\n\r\n"
MsgNoHost ==
    Message(RequestLine(Txt_GET, Txt_u) \o Field(Txt_Content_Length, Txt_0) \o CRLF, <<>>)
\* a head whose host field has an empty value: "GET /u\r\nHost:\r\n\r\n"
MsgEmptyHost ==
    Message(RequestLine(Txt_GET, Txt_u) \o Field(Txt_Host, <<>>) \o CRLF, <<>>)
\* both Content-Length and Transfer-Encoding
MsgConflict ==
    Message(RequestLine(Txt_GET, Txt_u) \o Field(Txt_Host, Txt_h)
                \o Field(Txt_Content_Length, BodyLength)
                \o Field(Txt_Transfer_Encoding, Txt_chunked) \o CRLF,
            Body)
\* both, the Transfer-Encoding field with an empty value
MsgEmptyTE ==
    Message(RequestLine(Txt_GET, Txt_u) \o Field(Txt_Host, Txt_h)
                \o Field(Txt_Transfer_Encoding, <<>>)
                \o Field(Txt_Content_Length, BodyLength) \o CRLF,
            Body)
\* the request that follows in a pipeline: "GET /2\r\nHost:h\r\n\r\n"
MsgNext == Message(RequestLine(Txt_GET, Txt_2) \o Field(Txt_Host, Txt_h) \o CRLF, <<>>)

Messages ==
    <<MsgGet, MsgFixed, MsgZero, MsgChunked, MsgNoHost, MsgEmptyHost, MsgConflict, MsgEmptyTE>>

Bytes(msg) == msg.head \o msg.body

\* the stream of message m followed by n - 1 times MsgNext
RECURSIVE Pipeline(_, _)
Pipeline(m, n) == IF n = 1 THEN Bytes(Messages[m]) ELSE Pipeline(m, n - 1) \o Bytes(MsgNext)

\* where the k-th message of Pipeline(m, n) starts, where its head ends and
\* where it ends, as offsets into the stream, and the header table of its
\* head tokenized on its own
Placed(msg, start) ==
    [start |-> start, headEnd |-> start + Len(msg.head), end |-> start + Len(Bytes(msg)),
     table |-> getHeaders(msg.head).headers]
LayoutOf(m, n) ==
    [k \in 1..n |->
        IF k = 1 THEN Placed(Messages[m], 0)
        ELSE Placed(MsgNext, Len(Bytes(Messages[m])) + (k - 2) * Len(Bytes(MsgNext)))]

\* every handler returns user
AllUser == [closeReq |-> 0, closeData |-> 0, sets |-> FALSE]

Policies ==
    { AllUser,
      [closeReq |-> 0, closeData |-> 0, sets |-> TRUE],
      [closeReq |-> 1, closeData |-> 0, sets |-> FALSE],
      [closeReq |-> 0, closeData |-> 1, sets |-> FALSE] }

\* HttpRequest req (line 408) is default-initialized: currentParameters, a
\* std::pair, is value-initialized; didYield is not initialized
NoParameters == [first |-> 0, second |-> "nullptr"]
Indeterminate == {[didYield |-> y, currentParameters |-> NoParameters] : y \in BOOLEAN}

\* a handler that does not read didYield behaves the same whatever it holds:
\* one value stands for both
Uninitialized ==
    IF policy.sets THEN Indeterminate
    ELSE {[didYield |-> FALSE, currentParameters |-> NoParameters]}

\* a parser as constructed (lines 166-167)
Fresh == [fallback |-> <<>>, rsb |-> Zero32, log |-> <<>>]

----------------------------------------------------------------------------
(* The connection: the caller hands the stream to the parser chunk by      *)
(* chunk, and stops once a call returns something other than user.         *)

Init ==
    /\ \E m \in 1..Len(Messages) :
          input = Pipeline(m, MaxPipeline) /\ layout = LayoutOf(m, MaxPipeline)
    /\ policy \in Policies
    /\ pos = 0
    /\ fallback = Fresh.fallback
    /\ remainingStreamingBytes = Fresh.rsb
    /\ log = Fresh.log
    /\ ret = USER
    /\ bytewise = TRUE

Consume(n, req0) ==
    /\ pos + n <= Len(input)
    /\ \E r \in {consumePostPadded(
                    [fallback |-> fallback, rsb |-> remainingStreamingBytes, log |-> log],
                    SubSeq(input, pos + 1, pos + n), pos, req0)} :
           /\ fallback' = r.fallback
           /\ remainingStreamingBytes' = r.rsb
           /\ log' = r.log
           /\ ret' = r.ret
    /\ pos' = pos + n
    /\ bytewise' = (bytewise /\ n = 1)
    /\ UNCHANGED <<input, layout, policy>>

Next ==
    /\ ret = USER
    /\ \E n \in 1..(Len(input) - pos), req0 \in Uninitialized : Consume(n, req0)

Spec == Init /\ [][Next]_vars

----------------------------------------------------------------------------
(* The vocabulary of the properties: the handler calls of the log, and the *)
(* messages of the stream they belong to.  A request_handler call belongs  *)
(* to the message whose head starts at the offset it was given, a          *)
(* data_handler call to the message whose body holds its offset.           *)

Requests == {i \in DOMAIN log : log[i].kind = "req"}
Data == {i \in DOMAIN log : log[i].kind = "data"}
Handled == Requests \cup Data

RequestsOf(k) == {i \in Requests : log[i].at = layout[k].start}
DataOf(k) == {i \in Data : layout[k].headEnd <= log[i].at /\ log[i].at <= layout[k].end}
Owner(i) == {k \in DOMAIN layout : i \in RequestsOf(k) \cup DataOf(k)}

\* the k-th head of the stream, and its header table
HeadOf(k) == SubSeq(input, layout[k].start + 1, layout[k].headEnd)
Table(k) == layout[k].table

\* the table has a field called name; the value of the first such field
Named(headers, name) == \E h \in 2..Len(headers) : headers[h].key = name
ValueOf(headers, name) ==
    headers[CHOOSE h \in 2..Len(headers) :
                headers[h].key = name /\ \A g \in 2..(h - 1) : headers[g].key # name].value

HasHost(k) == Named(Table(k), Str_host)
HasBoth(k) == Named(Table(k), Str_transfer_encoding) /\ Named(Table(k), Str_content_length)
HasNeither(headers) ==
    ~Named(headers, Str_transfer_encoding) /\ ~Named(headers, Str_content_length)
FixedLength(k) ==
    HasHost(k) /\ Named(Table(k), Str_content_length) /\ ~Named(Table(k), Str_transfer_encoding)

\* the result of feeding S as one chunk to a parser just constructed
OneChunk(S) == consumePostPadded(Fresh, S, 0, CHOOSE req0 \in Uninitialized : TRUE)

\* the request_handler and data_handler calls of lg, contiguous data chunks
\* coalesced, the is_end flag kept
RECURSIVE Coalesce(_, _, _)
Coalesce(lg, i, acc) ==
    IF i > Len(lg) THEN acc
    ELSE IF lg[i].kind = "req"
    THEN Coalesce(lg, i + 1,
                  Append(acc, [kind |-> "req", bytes |-> lg[i].headers, isEnd |-> FALSE]))
    ELSE IF lg[i].kind # "data"
    THEN Coalesce(lg, i + 1, acc)
    ELSE IF Len(acc) > 0 /\ acc[Len(acc)].kind = "data"
    THEN Coalesce(lg, i + 1,
                  [acc EXCEPT ![Len(acc)] = [kind |-> "data", bytes |-> @.bytes \o lg[i].bytes,
                                             isEnd |-> @.isEnd \/ lg[i].isEnd]])
    ELSE Coalesce(lg, i + 1,
                  Append(acc, [kind |-> "data", bytes |-> lg[i].bytes, isEnd |-> lg[i].isEnd]))

Calls(lg) == Coalesce(lg, 1, <<>>)

RECURSIVE BytesIn(_)
BytesIn(D) ==
    IF D = {} THEN 0
    ELSE LET i == CHOOSE x \in D : TRUE IN Len(log[i].bytes) + BytesIn(D \ {i})

\* what a request_handler call reads from the request it is given
Seen(e) ==
    [headers |-> e.headers, querySeparator |-> e.querySeparator,
     didYield |-> e.didYield, currentParameters |-> e.currentParameters]

\* the handler calls made when the stream from its k-th message on is fed as
\* one chunk to a parser just constructed
AloneOnFresh(k, req0) ==
    consumePostPadded(Fresh, SubSeq(input, layout[k].start + 1, Len(input)), 0, req0).log

\* a head that has a host field and not both framing fields
WellFormedHead(k) == HasHost(k) /\ ~HasBoth(k)

\* a and b are the same bytes up to the bit the tokenizer sets in the bytes
\* of the names it scans (line 251)
SameButLowered(a, b) ==
    Len(a) = Len(b) /\ \A i \in DOMAIN a : a[i] = b[i] \/ a[i] = Or32(b[i])

----------------------------------------------------------------------------
(* C1.  Split invariance: however the bytes delivered so far were split    *)
(* into chunks, the request_handler and data_handler calls made (data      *)
(* chunks coalesced, is_end kept) are those of feeding the same bytes as   *)
(* one chunk.  Stated for handlers that always return user.                *)
SplitInvariance ==
    policy = AllUser => Calls(log) = Calls(OneChunk(SubSeq(input, 1, pos)).log)

(* C2.  Body conservation: once all the bytes of a request with a valid    *)
(* Content-Length N are delivered, and the handlers always return user,    *)
(* its data chunks sum to N bytes and exactly one of them, the last,       *)
(* carries is_end.                                                         *)
BodyConservation ==
    policy = AllUser =>
        \A k \in DOMAIN layout :
            (FixedLength(k) /\ pos >= layout[k].end) =>
                /\ BytesIn(DataOf(k)) = toUnsignedInteger(ValueOf(Table(k), Str_content_length)).lo
                /\ Cardinality({i \in DataOf(k) : log[i].isEnd}) = 1
                /\ \A i, j \in DataOf(k) : log[i].isEnd => j <= i

(* C3.  Smuggling rejection: a head with both a transfer-encoding and a    *)
(* content-length field, whatever their values, gets no request_handler    *)
(* call, nothing at or after it gets a handler call, and the call that     *)
(* completes it returns FULLPTR.                                           *)
SmugglingRejection ==
    \A k \in DOMAIN layout :
        HasBoth(k) =>
            /\ \A i \in Handled : log[i].at < layout[k].start
            /\ (k = 1 /\ pos >= layout[k].headEnd) => ret = FULLPTR

(* C4.  Host enforcement: a head without a host field gets no handler      *)
(* call, and the call that completes it returns FULLPTR, on the direct     *)
(* path and through the fallback buffer alike; a head whose host field has *)
(* an empty value is dispatched.                                           *)
HostEnforcement ==
    \A k \in DOMAIN layout :
        /\ ~HasHost(k) =>
              /\ \A i \in Handled : log[i].at < layout[k].start
              /\ (k = 1 /\ pos >= layout[k].headEnd) => ret = FULLPTR
        /\ (HasHost(k) /\ ValueOf(Table(k), Str_host) = <<>> /\ ~HasBoth(k)
                /\ k = 1 /\ pos >= layout[k].headEnd) =>
              /\ ret # FULLPTR
              /\ RequestsOf(k) # {}

\* a head without host, completed through the fallback buffer, was rejected
HostEnforcementWitness ==
    /\ ~HasHost(1)
    /\ pos = layout[1].headEnd
    /\ Len(fallback) > 0
    /\ ret = FULLPTR
    /\ log = <<>>

(* C5.  Callback ordering: every handler call belongs to one message; the  *)
(* calls are made in the order of the messages; within a message the       *)
(* request_handler call comes before the data_handler calls; and every     *)
(* data_handler call has the request_handler call of its message before it.*)
CallbackOrdering ==
    /\ \A i \in Handled : Cardinality(Owner(i)) = 1
    /\ \A i, j \in Handled :
          i < j => \A a \in Owner(i), b \in Owner(j) :
                      /\ a <= b
                      /\ a = b => (log[i].kind = "req" \/ log[j].kind = "data")
    /\ \A j \in Data : \E i \in Requests : i < j /\ Owner(i) = Owner(j)

\* a body delivered over several calls, and the next request after it
CallbackOrderingWitness ==
    /\ FixedLength(1)
    /\ Len(layout) > 1
    /\ \E i \in RequestsOf(1), j \in DataOf(1), l \in DataOf(1), n \in RequestsOf(2) :
          /\ i < j /\ j < l /\ l < n
          /\ log[j].bytes # <<>>
          /\ log[l].isEnd

(* C6.  Cancellation by data_handler: a data_handler call that returns     *)
(* something other than user is the last handler call of its               *)
(* consumePostPadded call, which returns that value.  (The caller stops    *)
(* after a call that does not return user, so such a data_handler call is  *)
(* the last of the log.)                                                   *)
DataCancellation ==
    \A i \in Data : log[i].ret # USER => (i = Len(log) /\ ret = log[i].ret)

(* C7.  Upgrade or close by request_handler: a head that passes the host   *)
(* and framing checks gets exactly one request_handler call; if the call   *)
(* returns r other than user, it is the last handler call, the             *)
(* consumePostPadded call returns r, and remainingStreamingBytes stays 0.  *)
UpgradeByRequestHandler ==
    /\ \A k \in DOMAIN layout :
          /\ Cardinality(RequestsOf(k)) <= 1
          /\ (pos >= layout[k].headEnd /\ ~hostMissing(Table(k)) /\ ~framingConflict(Table(k))
                  /\ (k = 1 \/ ret = USER)) =>
                Cardinality(RequestsOf(k)) = 1
    /\ \A i \in Requests :
          log[i].ret # USER =>
              /\ i = Len(log)
              /\ ret = log[i].ret
              /\ remainingStreamingBytes = Zero32

\* the request handler closed a request that declares a body, where the
\* same input held the body and a further request
UpgradeByRequestHandlerWitness ==
    /\ Len(layout) > 1
    /\ Named(Table(1), Str_content_length)
    /\ layout[1].headEnd < layout[1].end
    /\ pos = Len(input)
    /\ Len(log) = 1
    /\ log[1].kind = "req"
    /\ ret = CLOSED
    /\ remainingStreamingBytes = Zero32

(* C8.  No-body dispatch: a request with neither transfer-encoding nor     *)
(* content-length whose request_handler returns user gets, right after     *)
(* it, one data_handler call with an empty chunk and is_end, and no other; *)
(* and once two such requests are delivered, in one chunk or in several,   *)
(* the calls are request, empty end data, request, empty end data.         *)
NoBodyDispatch ==
    /\ \A i \in Requests :
          (HasNeither(log[i].headers) /\ log[i].ret = USER) =>
              /\ i + 1 \in Data
              /\ log[i + 1].bytes = <<>>
              /\ log[i + 1].isEnd
              /\ i + 2 \notin Data
    /\ (/\ Len(layout) > 1
        /\ pos >= layout[2].headEnd
        /\ policy.closeReq = 0
        /\ \A k \in 1..2 : HasHost(k) /\ HasNeither(Table(k))) =>
          /\ Len(log) >= 4
          /\ \A k \in 1..2 :
                /\ log[2 * k - 1].kind = "req"
                /\ log[2 * k - 1].at = layout[k].start
                /\ log[2 * k].kind = "data"
                /\ log[2 * k].bytes = <<>>
                /\ log[2 * k].isEnd

\* two pipelined requests without a body, the second one dispatched in the
\* call that dispatched the first: it has read the parameters that the
\* handler of the first had set on the request of that call
NoBodyDispatchWitness ==
    /\ policy.sets
    /\ Len(layout) > 1
    /\ \A k \in 1..2 : HasHost(k) /\ HasNeither(Table(k))
    /\ Len(log) = 4
    /\ log[3].kind = "req"
    /\ log[3].currentParameters # NoParameters
    /\ log[4].kind = "data"

(* C9.  No cross-request leakage: what a request_handler call reads from   *)
(* the request (header table, query separator, yield flag, parameters) is  *)
(* what it would read if its message were the first one fed to a parser    *)
(* just constructed, for some value of the fields that are not             *)
(* initialized.                                                            *)
NoCrossRequestLeakage ==
    \A i \in Requests :
        \E k \in DOMAIN layout, req0 \in Uninitialized :
            /\ i \in RequestsOf(k)
            /\ Len(AloneOnFresh(k, req0)) > 0
            /\ Seen(AloneOnFresh(k, req0)[1]) = Seen(log[i])

(* C10.  Fallback idempotence, as claimed: while a well-formed head is fed *)
(* one byte per call, every call before the last returns user, calls no    *)
(* handler and leaves in the fallback buffer the bytes fed so far; the     *)
(* call that delivers the last byte calls request_handler once, with the   *)
(* header table of the head fed whole, and leaves the buffer empty.        *)
FallbackIdempotenceAsClaimed ==
    (bytewise /\ WellFormedHead(1)) =>
        /\ pos < layout[1].headEnd =>
              /\ ret = USER
              /\ log = <<>>
              /\ fallback = SubSeq(input, 1, pos)
        /\ pos = layout[1].headEnd =>
              /\ Cardinality(Requests) = 1
              /\ log[1].kind = "req"
              /\ log[1].headers = OneChunk(HeadOf(1)).log[1].headers
              /\ fallback = <<>>

(* C10, amended: the fallback buffer holds the bytes fed so far as the     *)
(* tokenizer left them, the bytes of the names it scanned ORed with 32;    *)
(* and the last call empties the buffer if request_handler returns user,   *)
(* and leaves the head in it otherwise.                                    *)
FallbackIdempotence ==
    (bytewise /\ WellFormedHead(1)) =>
        /\ pos < layout[1].headEnd =>
              /\ ret = USER
              /\ log = <<>>
              /\ SameButLowered(fallback, SubSeq(input, 1, pos))
        /\ pos = layout[1].headEnd =>
              /\ Cardinality(Requests) = 1
              /\ log[1].kind = "req"
              /\ log[1].headers = OneChunk(HeadOf(1)).log[1].headers
              /\ log[1].ret = USER => fallback = <<>>
              /\ log[1].ret # USER => SameButLowered(fallback, SubSeq(input, 1, pos))

\* a head fed byte by byte was dispatched and the buffer emptied
FallbackIdempotenceWitness ==
    /\ bytewise
    /\ WellFormedHead(1)
    /\ pos = layout[1].headEnd
    /\ pos > 1
    /\ Cardinality(Requests) = 1
    /\ log[1].ret = USER
    /\ fallback = <<>>

----------------------------------------------------------------------------
(* Streams whose first message has a framing field the parser must judge:  *)
(* a Content-Length that is no number, one of ten digits, one of nine, an  *)
(* empty one; a Transfer-Encoding with an empty value, with a value of     *)
(* white space, with a value other than "chunked".  MaxPipeline - 1        *)
(* requests follow, and the caller splits the stream as it likes.          *)

Txt_x == <<120>>
Txt_zeros == <<DIGIT0, DIGIT0, DIGIT0, DIGIT0, DIGIT0, DIGIT0, DIGIT0, DIGIT0>>

\* the chunked encoding of Body
ChunkedBody == BodyLength \o CRLF \o Body \o CRLF \o Txt_0 \o CRLF \o CRLF

FramedBy(name, value, body) ==
    Message(RequestLine(Txt_PUT, Txt_u) \o Field(Txt_Host, Txt_h) \o Field(name, value) \o CRLF,
            body)

\* "Content-Length:2x"
MsgBadLength == FramedBy(Txt_Content_Length, BodyLength \o Txt_x, Body)
\* "Content-Length:0000000002", ten digits
MsgLongLength == FramedBy(Txt_Content_Length, Txt_zeros \o Txt_0 \o BodyLength, Body)
\* "Content-Length:000000002", nine digits
MsgNineDigits == FramedBy(Txt_Content_Length, Txt_zeros \o BodyLength, Body)
\* "Content-Length:"
MsgEmptyLength == FramedBy(Txt_Content_Length, <<>>, <<>>)
\* "Transfer-Encoding:"
MsgEmptyEncoding == FramedBy(Txt_Transfer_Encoding, <<>>, ChunkedBody)
\* "Transfer-Encoding: "
MsgBlankEncoding == FramedBy(Txt_Transfer_Encoding, <<SP>>, ChunkedBody)
\* "Transfer-Encoding:h"
MsgOtherEncoding == FramedBy(Txt_Transfer_Encoding, Txt_h, ChunkedBody)

\* no host field: "PUT /u\r\nContent-Length:2\r\n\r\nab"
MsgNoHostLength ==
    Message(RequestLine(Txt_PUT, Txt_u) \o Field(Txt_Content_Length, BodyLength) \o CRLF, Body)

FramingMessages ==
    <<MsgBadLength, MsgLongLength, MsgNineDigits, MsgEmptyLength, MsgFixed,
      MsgEmptyEncoding, MsgBlankEncoding, MsgOtherEncoding, MsgChunked, MsgNoHostLength>>

\* the stream of message first followed by n - 1 times MsgNext, and its layout
RECURSIVE StreamOf(_, _)
StreamOf(first, n) == IF n = 1 THEN Bytes(first) ELSE StreamOf(first, n - 1) \o Bytes(MsgNext)
LayoutFrom(first, n) ==
    [k \in 1..n |->
        IF k = 1 THEN Placed(first, 0)
        ELSE Placed(MsgNext, Len(Bytes(first)) + (k - 2) * Len(Bytes(MsgNext)))]

InitFraming ==
    /\ \E m \in 1..Len(FramingMessages) :
          /\ input = StreamOf(FramingMessages[m], MaxPipeline)
          /\ layout = LayoutFrom(FramingMessages[m], MaxPipeline)
    /\ policy \in Policies
    /\ pos = 0
    /\ fallback = Fresh.fallback
    /\ remainingStreamingBytes = Fresh.rsb
    /\ log = Fresh.log
    /\ ret = USER
    /\ bytewise = TRUE

SpecFraming == InitFraming /\ [][Next]_vars

\* the message whose request_handler call is the last one made
Dispatched == {k \in DOMAIN layout : RequestsOf(k) # {}}
InProgress == CHOOSE k \in Dispatched : \A j \in Dispatched : j <= k

\* the request_handler calls that the call now made has added to the log
AddedRequests == {i \in (Len(log) + 1)..Len(log') : log'[i].kind = "req"}

\* a body is in progress and the fallback buffer holds bytes
BothPending == remainingStreamingBytes # Zero32 /\ fallback # <<>>

\* a call entered with a body in progress tokenizes a head only from the
\* end of that body on
NoHeadBeforeBodyEnd ==
    remainingStreamingBytes # Zero32 =>
        /\ Dispatched # {}
        /\ \A i \in AddedRequests : log'[i].at >= layout[InProgress].end

(* C11, as claimed.  Mutual exclusion: between two consumePostPadded       *)
(* calls, whatever the calls returned, it is never the case that a body is *)
(* in progress (remainingStreamingBytes is not 0) while the fallback       *)
(* buffer holds bytes; and a call entered with a body in progress          *)
(* tokenizes no head before the body has completed.                        *)
MutualExclusionAsClaimed == [](~BothPending) /\ [][NoHeadBeforeBodyEnd]_vars

(* C11, amended: both are pending only after a call that returned the      *)
(* error sentinel for a head that was completed in the fallback buffer and *)
(* whose content-length is no number: remainingStreamingBytes then holds   *)
(* UINT_MAX and the buffer still holds the head.  After every other call   *)
(* at most one of the two is pending, and a call entered with a body in    *)
(* progress tokenizes no head before the body has completed.               *)
MutualExclusion ==
    /\ [](BothPending =>
            /\ ret = FULLPTR
            /\ remainingStreamingBytes = UINT_MAX
            /\ Dispatched = {1}
            /\ toUnsignedInteger(getHeader(Table(1), Str_content_length).str) = UINT_MAX
            /\ SameButLowered(SubSeq(fallback, 1, Len(HeadOf(1))), HeadOf(1)))
    /\ [][NoHeadBeforeBodyEnd]_vars

\* a head with a bad content-length, completed in the fallback buffer: the
\* sentinel was returned and both are pending
MutualExclusionWitness ==
    /\ BothPending
    /\ ret = FULLPTR
    /\ pos >= layout[1].headEnd

----------------------------------------------------------------------------
(* Streams that fill the fallback buffer: a request, then the start of a   *)
(* head that never ends, "GET /aaa...", a little longer than the buffer.   *)
(* The caller delivers chunks of at most MaxSmall bytes around the first   *)
(* message and around MAX_FALLBACK_SIZE bytes into the stream, and chunks  *)
(* of about MAX_FALLBACK_SIZE bytes or more anywhere.                      *)

MaxSmall == 2
Slack == 3

Txt_GET_slash == <<71, 69, 84, 32, 47>>
OpenHead ==
    [k \in 1..(MAX_FALLBACK_SIZE + Slack) |->
        IF k <= Len(Txt_GET_slash) THEN Txt_GET_slash[k] ELSE 97]

\* a head of which the stream holds only the start
Unfinished(start, length) ==
    [start |-> start, headEnd |-> start + length + 1, end |-> start + length + 1,
     table |-> <<>>]

OverflowMessages == <<MsgNext, MsgFixed>>
OverflowPolicies == {AllUser, [closeReq |-> 1, closeData |-> 0, sets |-> FALSE]}

InitOverflow ==
    /\ \E m \in 1..Len(OverflowMessages) :
          /\ input = Bytes(OverflowMessages[m]) \o OpenHead
          /\ layout = <<Placed(OverflowMessages[m], 0),
                        Unfinished(Len(Bytes(OverflowMessages[m])), Len(OpenHead))>>
    /\ policy \in OverflowPolicies
    /\ pos = 0
    /\ fallback = Fresh.fallback
    /\ remainingStreamingBytes = Fresh.rsb
    /\ log = Fresh.log
    /\ ret = USER
    /\ bytewise = TRUE

ChunkLengths ==
    {n \in 1..(Len(input) - pos) :
        \/ n >= MAX_FALLBACK_SIZE - Slack
        \/ /\ n <= MaxSmall
           /\ (pos < layout[1].end + MaxSmall \/ pos >= MAX_FALLBACK_SIZE - Slack)}

NextOverflow ==
    /\ ret = USER
    /\ \E n \in ChunkLengths, req0 \in Uninitialized : Consume(n, req0)

SpecOverflow == InitOverflow /\ [][NextOverflow]_vars

\* where the bytes not yet tokenized start once p bytes of the stream are
\* delivered: at the first head that is not complete, or at p inside a body
Frontier(p) ==
    Min2(p, layout[CHOOSE k \in DOMAIN layout :
                      layout[k].headEnd > p /\ \A j \in 1..(k - 1) : layout[j].headEnd <= p].start)

\* the fallback buffer holds bytes of the stream from position s on
HoldsFrom(s) ==
    /\ s + Len(fallback) <= pos
    /\ SameButLowered(fallback, SubSeq(input, s + 1, s + Len(fallback)))

(* C12, as claimed.  Fallback bound: in every state the fallback buffer    *)
(* holds at most MAX_FALLBACK_SIZE bytes, and only bytes of the head not   *)
(* yet tokenized, from its start on: no bytes of a body and none of a head *)
(* already dispatched.  (The bytes are compared up to the bit the          *)
(* tokenizer sets in names.)                                               *)
FallbackBoundAsClaimed ==
    /\ Len(fallback) <= MAX_FALLBACK_SIZE
    /\ HoldsFrom(Frontier(pos))

(* C12, amended: the buffer holds at most MAX_FALLBACK_SIZE bytes; after a *)
(* call that returned user it holds only bytes of the head not yet         *)
(* tokenized; after a call that returned anything else it is empty or      *)
(* holds what the tokenizer was run on: bytes of the stream from the start *)
(* of a head on, the head dispatched in that call and the bytes copied     *)
(* after it included.                                                      *)
FallbackBound ==
    /\ Len(fallback) <= MAX_FALLBACK_SIZE
    /\ ret = USER => HoldsFrom(Frontier(pos))
    /\ ret # USER => \E k \in DOMAIN layout : HoldsFrom(layout[k].start)

\* the longest remainder that is stashed, after a dispatched request
FallbackBoundWitness ==
    /\ ret = USER
    /\ Len(fallback) = MAX_FALLBACK_SIZE - 1
    /\ Requests # {}

\* the error_handler calls that the call now made has added to the log
AddedErrors == {i \in (Len(log) + 1)..Len(log') : log'[i].kind = "error"}

\* (a): the fallback buffer holds bytes, and with the input appended it
\* reaches MAX_FALLBACK_SIZE bytes that hold no complete head
OverflowOnAppend ==
    /\ fallback # <<>>
    /\ Len(fallback) + (pos' - pos) >= MAX_FALLBACK_SIZE
    /\ Frontier(pos - Len(fallback) + MAX_FALLBACK_SIZE) = pos - Len(fallback)

\* (b): the main loop runs (on a buffer that was empty, or after the head
\* in the buffer was tokenized) and leaves MAX_FALLBACK_SIZE bytes or more
OverflowOnStash ==
    /\ \/ fallback = <<>>
       \/ Frontier(pos - Len(fallback) + Min2(MAX_FALLBACK_SIZE, Len(fallback) + (pos' - pos)))
              > pos - Len(fallback)
    /\ pos' - Frontier(pos') >= MAX_FALLBACK_SIZE

(* C13.  Fallback overflow: a call makes at most one error_handler call,   *)
(* as its last handler call, and returns what it returned; with handlers   *)
(* that return user it makes one exactly when (a) the fallback buffer with *)
(* the input appended reaches MAX_FALLBACK_SIZE bytes without a complete   *)
(* head, or (b) the main loop leaves MAX_FALLBACK_SIZE bytes or more; and  *)
(* otherwise it returns user with all of the remainder in the fallback     *)
(* buffer (that the buffer holds the bytes of the remainder is part of     *)
(* FallbackBound).                                                         *)
FallbackOverflow ==
    [][/\ Cardinality(AddedErrors) <= 1
       /\ AddedErrors # {} =>
             /\ Len(log') \in AddedErrors
             /\ ret' = log'[Len(log')].ret
       /\ AddedErrors = {} => ret' # ERRRET
       /\ policy = AllUser =>
             /\ AddedErrors # {} <=> (OverflowOnAppend \/ OverflowOnStash)
             /\ AddedErrors = {} =>
                   /\ ret' = USER
                   /\ Len(fallback') = pos' - Frontier(pos')]_vars

\* a buffer that held bytes was filled to MAX_FALLBACK_SIZE bytes without a
\* complete head: error_handler was called last and its value returned
FallbackOverflowWitness ==
    /\ Len(fallback) = MAX_FALLBACK_SIZE
    /\ ret = ERRRET
    /\ log # <<>>
    /\ log[Len(log)].kind = "error"
    /\ \A i \in 1..(Len(log) - 1) : log[i].kind # "error"

----------------------------------------------------------------------------
(* Streams for the tokenizer: heads of MAX_HEADERS - 3 to MAX_HEADERS      *)
(* fields, heads that can never tokenize (a blank line first, a CR without *)
(* its LF), and heads with bytes in a field name that are neither letter,  *)
(* digit nor '-'.  A request follows.  The caller delivers chunks of at    *)
(* most MaxSmall bytes, or what is left of the stream but for at most      *)
(* MaxSmall bytes.                                                         *)

Txt_a == <<97>>
Txt_1 == <<49>>
Txt_X_a == <<88, 95, 97>>
Txt_at_paren == <<97, 64, 40>>

\* f times "a:\r\n"
RECURSIVE Fields(_)
Fields(f) == IF f = 0 THEN <<>> ELSE Fields(f - 1) \o Field(Txt_a, <<>>)

\* a request line, a host field and f - 1 further fields: f + 1 entries
ManyFields(f) ==
    Message(RequestLine(Txt_GET, Txt_u) \o Field(Txt_Host, Txt_h) \o Fields(f - 1) \o CRLF, <<>>)

FieldCounts == (MAX_HEADERS - 3)..MAX_HEADERS

\* "\r\nGET /2\r\nHost:h\r\n\r\n"
MsgBlankFirst == Message(CRLF \o MsgNext.head, <<>>)
\* "GET /u\r\nHost:h\rX\r\n\r\n"
MsgBareCR ==
    Message(RequestLine(Txt_GET, Txt_u) \o Txt_Host \o <<COLON>> \o Txt_h \o <<CR, 88>>
                \o CRLF \o CRLF,
            <<>>)
\* "GET /u\r\nHost:h\r\nX_a:1\r\n\r\n"
MsgUnderscore ==
    Message(RequestLine(Txt_GET, Txt_u) \o Field(Txt_Host, Txt_h) \o Field(Txt_X_a, Txt_1) \o CRLF,
            <<>>)
\* "GET /u\r\nHost:h\r\na@(:1\r\n\r\n"
MsgAtParen ==
    Message(RequestLine(Txt_GET, Txt_u) \o Field(Txt_Host, Txt_h)
                \o Field(Txt_at_paren, Txt_1) \o CRLF,
            <<>>)

TokenizerMessages ==
    {ManyFields(f) : f \in FieldCounts} \cup {MsgBlankFirst, MsgBareCR, MsgUnderscore, MsgAtParen}

InitTokenizer ==
    /\ \E first \in TokenizerMessages :
          /\ input = StreamOf(first, MaxPipeline)
          /\ layout = LayoutFrom(first, MaxPipeline)
    /\ policy = AllUser
    /\ pos = 0
    /\ fallback = Fresh.fallback
    /\ remainingStreamingBytes = Fresh.rsb
    /\ log = Fresh.log
    /\ ret = USER
    /\ bytewise = TRUE

NextTokenizer ==
    /\ ret = USER
    /\ \E n \in 1..(Len(input) - pos), req0 \in Uninitialized :
          /\ n <= MaxSmall \/ n >= Len(input) - pos - MaxSmall
          /\ Consume(n, req0)

SpecTokenizer == InitTokenizer /\ [][NextTokenizer]_vars

\* the first head of the stream is one that can never tokenize: it starts
\* with a blank line, has a CR without its LF, or has MAX_HEADERS entries
\* or more
Entries(head) == Cardinality({i \in 1..(Len(head) - 1) : head[i] = CR /\ head[i + 1] = LF}) - 1
ManyFieldsHead == \E f \in FieldCounts : HeadOf(1) = ManyFields(f).head
NeverTokenizes ==
    \/ HeadOf(1) = MsgBlankFirst.head
    \/ HeadOf(1) = MsgBareCR.head
    \/ ManyFieldsHead /\ Entries(HeadOf(1)) >= MAX_HEADERS

(* C14, as claimed.  A head that can never tokenize is a terminal error:   *)
(* once it is delivered, consumePostPadded has returned FULLPTR and the    *)
(* bytes are not kept in the fallback buffer as an incomplete head.        *)
MalformedHeadAsClaimed ==
    (NeverTokenizes /\ pos >= layout[1].headEnd) =>
        /\ ret = FULLPTR
        /\ fallback = <<>>

(* C14, amended: a head that can never tokenize is treated as a head that  *)
(* is not complete yet: however much of the stream is delivered, every     *)
(* call has returned user, no handler was called, and the fallback buffer  *)
(* holds all the bytes delivered (up to the bit the tokenizer sets in      *)
(* names).  The streams here stay below MAX_FALLBACK_SIZE bytes.           *)
MalformedHead ==
    NeverTokenizes =>
        /\ ret = USER
        /\ log = <<>>
        /\ SameButLowered(fallback, SubSeq(input, 1, pos))

\* a head with a CR without its LF, and the request after it, delivered:
\* all of it is in the fallback buffer
MalformedHeadWitness ==
    /\ HeadOf(1) = MsgBareCR.head
    /\ pos = Len(input)
    /\ pos > layout[1].headEnd
    /\ ret = USER
    /\ Len(fallback) = Len(input)

(* C17, as claimed.  Header capacity: a head of at most MAX_HEADERS        *)
(* entries (the request line and up to MAX_HEADERS - 1 fields) is          *)
(* tokenized, with an empty key after the last field; a head of more       *)
(* entries is not; and no slot above MAX_HEADERS - 1 is written.           *)
HeaderCapacityAsClaimed ==
    /\ (ManyFieldsHead /\ pos >= layout[1].headEnd) =>
          /\ Entries(HeadOf(1)) <= MAX_HEADERS =>
                /\ Cardinality(RequestsOf(1)) = 1
                /\ \A i \in RequestsOf(1) :
                      /\ Len(log[i].headers) = Entries(HeadOf(1)) + 1
                      /\ log[i].headers[Len(log[i].headers)].key = <<>>
          /\ Entries(HeadOf(1)) > MAX_HEADERS => RequestsOf(1) = {}
    /\ Len(getHeaders(SubSeq(input, 1, pos)).headers) <= MAX_HEADERS

(* C17, amended: a head of at most MAX_HEADERS - 1 entries (the request    *)
(* line and up to MAX_HEADERS - 2 fields) is tokenized, with an empty key  *)
(* in the slot after the last field and none before; a head of             *)
(* MAX_HEADERS entries or more is not tokenized (the tokenizer returns 0,  *)
(* no handler is called and the bytes stay in the fallback buffer); and    *)
(* whatever bytes the tokenizer is given it writes no slot above           *)
(* MAX_HEADERS - 1.                                                        *)
HeaderCapacity ==
    /\ (ManyFieldsHead /\ pos >= layout[1].headEnd) =>
          /\ Entries(HeadOf(1)) <= MAX_HEADERS - 1 =>
                /\ getHeaders(HeadOf(1)).consumed = Len(HeadOf(1))
                /\ Cardinality(RequestsOf(1)) = 1
                /\ \A i \in RequestsOf(1) :
                      /\ Len(log[i].headers) = Entries(HeadOf(1)) + 1
                      /\ \A h \in DOMAIN log[i].headers :
                            log[i].headers[h].key = <<>> <=> h = Len(log[i].headers)
          /\ Entries(HeadOf(1)) >= MAX_HEADERS =>
                /\ getHeaders(HeadOf(1)).consumed = 0
                /\ log = <<>>
                /\ ret = USER
                /\ Len(fallback) = pos
    /\ Len(getHeaders(SubSeq(input, 1, pos)).headers) <= MAX_HEADERS

\* the largest head that is tokenized, completed in the fallback buffer:
\* its terminator is in the last slot
HeaderCapacityWitness ==
    /\ ManyFieldsHead
    /\ Entries(HeadOf(1)) = MAX_HEADERS - 1
    /\ pos = layout[1].headEnd
    /\ \E i \in RequestsOf(1) :
          /\ Len(log[i].headers) = MAX_HEADERS
          /\ log[i].headers[MAX_HEADERS].key = <<>>
    /\ ~bytewise

\* a byte of a field name as the tokenizer leaves it that is no lowercase
\* letter, digit or '-'
ValidNameByte(b) == isFieldNameByte(b) /\ ~(b > 64 /\ b < 91)
HasInvalidName(headers) ==
    \E h \in 2..Len(headers) : \E j \in DOMAIN headers[h].key : ~ValidNameByte(headers[h].key[j])

(* C20.  Field-name validation: a head with a field name that holds a byte *)
(* that is neither letter, digit nor '-' gets no request_handler call (the *)
(* tokenizer returns 0 for it); and the field names that request_handler   *)
(* is given hold only lowercase letters, digits and '-'.                   *)
FieldNameValidation ==
    /\ \A k \in DOMAIN layout : HasInvalidName(Table(k)) => RequestsOf(k) = {}
    /\ \A i \in Requests : ~HasInvalidName(log[i].headers)

----------------------------------------------------------------------------
(* Content-Length values.                                                  *)

\* the head of the first message has a content-length field and no
\* transfer-encoding field; the value of the field
OnlyLength == Named(Table(1), Str_content_length) /\ ~Named(Table(1), Str_transfer_encoding)
LengthValue == ValueOf(Table(1), Str_content_length)

HasNonDigit(v) == \E j \in DOMAIN v : v[j] < DIGIT0 \/ v[j] > DIGIT9

\* the number that a string of digits denotes
RECURSIVE DecimalOf(_)
DecimalOf(v) ==
    IF v = <<>> THEN 0
    ELSE 10 * DecimalOf(SubSeq(v, 1, Len(v) - 1)) + (v[Len(v)] - DIGIT0)

\* what is left of a body of n bytes after the data_handler calls made
LeftOf(n) == U32(0, n - BytesIn(DataOf(1)))

(* C15, as claimed.  Bad Content-Length: for a head with a content-length  *)
(* field and no transfer-encoding field, once it is delivered: if the      *)
(* value is not a string of 1 to 9 digits, consumePostPadded has returned  *)
(* FULLPTR and data_handler was not called for the request; otherwise      *)
(* remainingStreamingBytes was set to the number the value denotes (and    *)
(* holds what the data_handler calls have left of it).                     *)
BadContentLengthAsClaimed ==
    (OnlyLength /\ pos >= layout[1].headEnd) =>
        IF HasNonDigit(LengthValue) \/ Len(LengthValue) \notin 1..9
        THEN ret = FULLPTR /\ DataOf(1) = {}
        ELSE remainingStreamingBytes = LeftOf(DecimalOf(LengthValue))

(* C15, amended: for a head with a host field, a content-length field and  *)
(* no transfer-encoding field whose request_handler call returned user,    *)
(* once it is delivered: if the value holds a byte that is no digit or is  *)
(* longer than 9 bytes, consumePostPadded has returned FULLPTR and         *)
(* data_handler was not called for the request; otherwise (the empty value *)
(* included, which counts as 0) remainingStreamingBytes was set to the     *)
(* number the value denotes.                                               *)
BadContentLength ==
    (/\ OnlyLength
     /\ HasHost(1)
     /\ pos >= layout[1].headEnd
     /\ \A i \in RequestsOf(1) : log[i].ret = USER) =>
        IF HasNonDigit(LengthValue) \/ Len(LengthValue) > 9
        THEN ret = FULLPTR /\ DataOf(1) = {}
        ELSE remainingStreamingBytes = LeftOf(DecimalOf(LengthValue))

\* a head with a value of ten digits, completed in the fallback buffer: the
\* request handler was called, the data handler was not
BadContentLengthWitness ==
    /\ HeadOf(1) = MsgLongLength.head
    /\ pos >= layout[1].headEnd
    /\ fallback # <<>>
    /\ RequestsOf(1) # {}
    /\ DataOf(1) = {}
    /\ ret = FULLPTR

----------------------------------------------------------------------------
(* Transfer-Encoding values.                                               *)

\* the head of the first message has a host field, a transfer-encoding
\* field and no content-length field, and its request handler returned user
OnlyEncoding ==
    /\ HasHost(1)
    /\ Named(Table(1), Str_transfer_encoding)
    /\ ~Named(Table(1), Str_content_length)
    /\ \A i \in RequestsOf(1) : log[i].ret = USER

(* C16.  Chunked classification: a head with a transfer-encoding field,    *)
(* whatever its value (empty or blank included), and no content-length     *)
(* field, whose request_handler returned user, sets the body state to      *)
(* chunked: while the body is not delivered in full the parser is in the   *)
(* chunked state with nothing in the fallback buffer, and no head is       *)
(* dispatched from the bytes of the body.                                  *)
ChunkedClassification ==
    (OnlyEncoding /\ pos >= layout[1].headEnd) =>
        /\ (pos < layout[1].end /\ ret = USER) =>
              /\ isParsingChunkedEncoding(remainingStreamingBytes)
              /\ fallback = <<>>
        /\ \A i \in Requests : log[i].at = layout[1].start \/ log[i].at >= layout[1].end

----------------------------------------------------------------------------
(* The request line 'METHOD SP target [SP HTTP-version] CRLF' as it is in  *)
(* the input.                                                              *)

\* the bytes of s before the first b, and those after it (s holds b)
FirstAt(s, b) == CHOOSE j \in DOMAIN s : s[j] = b /\ \A g \in 1..(j - 1) : s[g] # b
Before(s, b) == SubSeq(s, 1, FirstAt(s, b) - 1)
After(s, b) == SubSeq(s, FirstAt(s, b) + 1, Len(s))
Holds(s, b) == \E j \in DOMAIN s : s[j] = b

RequestLineOf(head) == Before(head, CR)
MethodOf(head) == Before(RequestLineOf(head), SP)
TargetOf(head) ==
    LET target(rest) == IF Holds(rest, SP) THEN Before(rest, SP) ELSE rest
    IN  target(After(RequestLineOf(head), SP))
HasVersion(head) == Holds(After(RequestLineOf(head), SP), SP)

(* C18.  Method case preservation: the key of slot 0 that request_handler  *)
(* is given, which is what getCaseSensitiveMethod returns before any       *)
(* getMethod call, is byte for byte the method of the input ("GET" for     *)
(* "GET ...").                                                             *)
MethodCasePreservation ==
    \A k \in DOMAIN layout : \A i \in RequestsOf(k) :
        getCaseSensitiveMethod(log[i].headers) = MethodOf(HeadOf(k))

(* C19.  Request target: the full URL that request_handler is given is the *)
(* target of the request line without the HTTP-version token, the URL is   *)
(* the target up to the first '?', and the query separator is the offset   *)
(* of the first '?' in the target, or the length of the target when it has *)
(* none.                                                                   *)
RequestTarget ==
    \A k \in DOMAIN layout : \A i \in RequestsOf(k) :
        LET target == TargetOf(HeadOf(k)) IN
        /\ getFullUrl(log[i].headers) = target
        /\ getUrl(log[i].headers, log[i].querySeparator) =
              (IF Holds(target, QMARK) THEN Before(target, QMARK) ELSE target)
        /\ log[i].querySeparator =
              (IF Holds(target, QMARK) THEN FirstAt(target, QMARK) - 1 ELSE Len(target))
        /\ log[i].querySeparator <= Len(target)

----------------------------------------------------------------------------
(* Malformed chunked bodies: a chunked request whose body the decoder      *)
(* rejects at its byte number badAt, followed by further requests.         *)

Txt_g == <<103>>
Txt_size_2_30 == <<52, DIGIT0, DIGIT0, DIGIT0, DIGIT0, DIGIT0, DIGIT0, DIGIT0>>

ChunkedWith(body) == FramedBy(Txt_Transfer_Encoding, Txt_chunked, body)

\* "g\r\nab\r\n0\r\n\r\n": the size is no hex number
MsgBadHex == ChunkedWith(Txt_g \o CRLF \o Body \o CRLF \o Txt_0 \o CRLF \o CRLF)
\* "2\r\nab0\r\n\r\n": no CRLF after the bytes of the chunk
MsgMissingCRLF == ChunkedWith(BodyLength \o CRLF \o Body \o Txt_0 \o CRLF \o CRLF)
\* "2\r\nab\r0\r\n\r\n": a CR without LF after the bytes of the chunk
MsgMissingLF == ChunkedWith(BodyLength \o CRLF \o Body \o <<CR>> \o Txt_0 \o CRLF \o CRLF)
\* "40000000\r\n...": a size of 2^30
MsgSizeOverflow == ChunkedWith(Txt_size_2_30 \o CRLF \o Body \o CRLF \o Txt_0 \o CRLF \o CRLF)

ChunkedMessages == <<MsgBadHex, MsgMissingCRLF, MsgMissingLF, MsgSizeOverflow, MsgChunked>>

\* the number of the body byte at which the decoder rejects the body of the
\* first message, 0 if it does not
BadAt ==
    IF HeadOf(1) # MsgChunked.head THEN 0
    ELSE IF input = StreamOf(MsgBadHex, MaxPipeline) THEN 1
    ELSE IF input = StreamOf(MsgMissingCRLF, MaxPipeline) THEN MaxBody + 4
    ELSE IF input = StreamOf(MsgMissingLF, MaxPipeline) THEN MaxBody + 5
    ELSE IF input = StreamOf(MsgSizeOverflow, MaxPipeline) THEN Len(Txt_size_2_30)
    ELSE 0

InitChunked ==
    /\ \E m \in 1..Len(ChunkedMessages) :
          /\ input = StreamOf(ChunkedMessages[m], MaxPipeline)
          /\ layout = LayoutFrom(ChunkedMessages[m], MaxPipeline)
    /\ policy \in Policies
    /\ pos = 0
    /\ fallback = Fresh.fallback
    /\ remainingStreamingBytes = Fresh.rsb
    /\ log = Fresh.log
    /\ ret = USER
    /\ bytewise = TRUE

SpecChunked == InitChunked /\ [][Next]_vars

(* C21.  Bad chunked encoding: whenever the chunk decoder has left the     *)
(* state marked invalid, the consumePostPadded call has returned FULLPTR   *)
(* and no request after the one with the body was dispatched; a malformed  *)
(* body is rejected as soon as its malformed byte is delivered, whether    *)
(* the decoder ran right after the head, on resume, or after a head        *)
(* completed from the fallback buffer; and a data_handler call for a chunk *)
(* of the body has is_end exactly when the chunk is empty.                 *)
BadChunkedEncoding ==
    /\ isParsingInvalidChunkedEncoding(remainingStreamingBytes) =>
          /\ ret = FULLPTR
          /\ Requests = RequestsOf(1)
    /\ (/\ BadAt # 0
        /\ pos >= layout[1].headEnd + BadAt
        /\ \A i \in RequestsOf(1) : log[i].ret = USER) =>
          /\ isParsingInvalidChunkedEncoding(remainingStreamingBytes)
          /\ Cardinality(RequestsOf(1)) = 1
    /\ \A i \in DataOf(1) : log[i].isEnd <=> log[i].bytes = <<>>

\* a body rejected for a missing CRLF after a chunk whose bytes were given
\* to data_handler, all of the stream delivered in the call
BadChunkedEncodingWitness ==
    /\ input = StreamOf(MsgMissingCRLF, MaxPipeline)
    /\ pos = Len(input)
    /\ isParsingInvalidChunkedEncoding(remainingStreamingBytes)
    /\ ret = FULLPTR
    /\ \E i \in DataOf(1) : log[i].bytes = Body /\ ~log[i].isEnd
    /\ RequestsOf(2) = {}

----------------------------------------------------------------------------
(* The cursor of the fallback path (lines 444-466).                        *)

\* streams of requests that are dispatched, with handlers that return user
CursorMessages == <<MsgGet, MsgFixed, MsgZero, MsgChunked, MsgEmptyHost>>

InitCursor ==
    /\ \E m \in 1..Len(CursorMessages) :
          /\ input = StreamOf(CursorMessages[m], MaxPipeline)
          /\ layout = LayoutFrom(CursorMessages[m], MaxPipeline)
    /\ policy \in {q \in Policies : q.closeReq = 0 /\ q.closeData = 0}
    /\ pos = 0
    /\ fallback = Fresh.fallback
    /\ remainingStreamingBytes = Fresh.rsb
    /\ log = Fresh.log
    /\ ret = USER
    /\ bytewise = TRUE

SpecCursor == InitCursor /\ [][Next]_vars

\* a call that finds bytes in the fallback buffer and no body in progress
\* appends maxCopyDistance bytes of its input to it and tokenizes it
FallbackTaken == fallback # <<>> /\ remainingStreamingBytes = Zero32
Had == Len(fallback)
MaxCopyDistance == Min2(MAX_FALLBACK_SIZE - Had, pos' - pos)

\* the handler calls that the call now made has added to the log
Added == (Len(log) + 1)..Len(log')

\* the tokenization of the buffer buf has succeeded with tokenized bytes:
\* they are more than the buffer held and no more than it holds now, they
\* are the bytes of the input from where the buffer started, the head is
\* dispatched from there, and what else the call hands to a handler lies
\* behind the head
CursorOf(buf, tokenized) ==
    tokenized # 0 =>
        /\ Had < tokenized
        /\ tokenized <= Had + MaxCopyDistance
        /\ tokenized - Had <= pos' - pos
        /\ ret' # UNDEFINED
        /\ SameButLowered(SubSeq(buf, 1, tokenized),
                          SubSeq(input, pos - Had + 1, pos - Had + tokenized))
        /\ \A i \in Added :
              IF i = Len(log) + 1 /\ log'[i].kind = "req"
              THEN log'[i].at = pos - Had
              ELSE log'[i].at >= pos - Had + tokenized

CursorInRange ==
    FallbackTaken =>
        LET tokenize(buf) == CursorOf(buf, getHeaders(buf).consumed)
        IN  tokenize(fallback \o SubSeq(input, pos + 1, pos + MaxCopyDistance))

\* the bytes data_handler was given for message k, in the order of the calls
RECURSIVE PayloadFrom(_, _)
PayloadFrom(k, i) ==
    IF i > Len(log) THEN <<>>
    ELSE IF i \in DataOf(k) THEN log[i].bytes \o PayloadFrom(k, i + 1)
    ELSE PayloadFrom(k, i + 1)
Payload(k) == PayloadFrom(k, 1)

\* the body of message k as data_handler is to see it
Chunked(k) == Len(getHeader(Table(k), Str_transfer_encoding).str) # 0
BodyOf(k) == IF Chunked(k) THEN Body ELSE SubSeq(input, layout[k].headEnd + 1, layout[k].end)

\* the bytes that a handler call was handed: a head, or the bytes of a chunk
Extent(i) ==
    IF log[i].kind = "data" THEN Len(log[i].bytes)
    ELSE IF log[i].kind = "req"
    THEN Len(HeadOf(CHOOSE k \in DOMAIN layout : i \in RequestsOf(k)))
    ELSE 0

\* no byte is seen twice: the handler calls are handed bytes of the input,
\* each from where the one before ended or later; no byte is dropped: while
\* the calls return user, every message that lies before the bytes held in
\* the fallback buffer was dispatched and its body handed over in full, and
\* of a fixed-length body in progress all the bytes delivered
ProcessedOnce ==
    /\ \A i \in Requests : \E k \in DOMAIN layout : i \in RequestsOf(k)
    /\ \A i \in Data : log[i].bytes = SubSeq(input, log[i].at + 1, log[i].at + Len(log[i].bytes))
    /\ \A i, j \in Handled : i < j => log[i].at + Extent(i) <= log[j].at
    /\ ret = USER =>
          /\ SameButLowered(fallback, SubSeq(input, pos - Len(fallback) + 1, pos))
          /\ \A k \in DOMAIN layout :
                /\ layout[k].end <= pos - Len(fallback) =>
                      /\ Cardinality(RequestsOf(k)) = 1
                      /\ Payload(k) = BodyOf(k)
                /\ (/\ layout[k].headEnd <= pos
                    /\ pos < layout[k].end
                    /\ ~Chunked(k)) =>
                      /\ Cardinality(RequestsOf(k)) = 1
                      /\ fallback = <<>>
                      /\ Payload(k) = SubSeq(input, layout[k].headEnd + 1, pos)

(* C22.  Fallback cursor accounting: whenever tokenizing the fallback      *)
(* buffer succeeds, the number of bytes tokenized is more than the buffer  *)
(* held before the input was appended and at most that plus the bytes      *)
(* appended, so 'consumed - had' does not underflow and the input cursor   *)
(* advances by at most the length of the input; and every byte of the      *)
(* input is part of the head dispatched or is processed after it exactly   *)
(* once, none dropped and none seen twice.                                 *)
FallbackCursorAccounting == []ProcessedOnce /\ [][CursorInRange]_vars

\* a head completed from the fallback buffer (no data_handler call is made
\* for its Content-Length of 0 on that path), and the request behind it in
\* the stream dispatched
FallbackCursorAccountingWitness ==
    /\ HeadOf(1) = MsgZero.head
    /\ pos = Len(input)
    /\ ret = USER
    /\ RequestsOf(1) # {}
    /\ DataOf(1) = {}
    /\ RequestsOf(2) # {}
    /\ ~bytewise

----------------------------------------------------------------------------
(* One consumePostPadded call, iteration by iteration.  A first call may   *)
(* have left the start of the first head in the fallback buffer; then a    *)
(* call is made with all the input that is left.  It runs the code before  *)
(* the main loop in one step (Call), and each iteration of the loop of     *)
(* line 289 in a step of its own (Iterate).  While the call has not        *)
(* returned, ret is RUNNING and pos is where data points.                  *)

RUNNING == "running"

\* handlers that do not use the fields of the request that the call leaves
\* uninitialized
LoopPolicies == {q \in Policies : ~q.sets}

InitLoop ==
    /\ \E m \in 1..Len(Messages) :
          input = Pipeline(m, MaxPipeline) /\ layout = LayoutOf(m, MaxPipeline)
    /\ policy \in LoopPolicies
    /\ pos = 0
    /\ fallback = Fresh.fallback
    /\ remainingStreamingBytes = Fresh.rsb
    /\ log = Fresh.log
    /\ ret = USER
    /\ bytewise = TRUE

\* a first call with a part of the first head
First ==
    /\ ret = USER
    /\ pos = 0
    /\ \E h \in 1..(layout[1].headEnd - 1), req0 \in Uninitialized : Consume(h, req0)

\* consumePostPadded returns out
Returns(out) ==
    /\ fallback' = out.fallback
    /\ remainingStreamingBytes' = out.rsb
    /\ log' = out.log
    /\ ret' = out.ret
    /\ pos' = Len(input)

\* lines 404-510: the call is made; with bytes in the fallback buffer, the
\* head in it is completed first
Call ==
    /\ ret = USER
    /\ pos < Len(input)
    /\ IF fallback # <<>>
       THEN \E req0 \in Uninitialized :
            \E p \in {fallbackHead(
                         [fallback |-> fallback, rsb |-> remainingStreamingBytes, log |-> log],
                         SubSeq(input, pos + 1, Len(input)), pos,
                         [rsb |-> remainingStreamingBytes, log |-> log, req |-> req0])} :
                IF p.enter
                THEN /\ pos' = p.at
                     /\ remainingStreamingBytes' = p.st.rsb
                     /\ log' = p.st.log
                     /\ fallback' = <<>>
                     /\ ret' = RUNNING
                ELSE Returns(p.out)
       ELSE /\ ret' = RUNNING
            /\ UNCHANGED <<pos, remainingStreamingBytes, log, fallback>>
    /\ bytewise' = FALSE
    /\ UNCHANGED <<input, layout, policy>>

\* lines 289-399 and 511-528: the loop tests length and the tokenizer's
\* result; it runs one iteration, or it ends and the call returns
Iterate ==
    /\ ret = RUNNING
    /\ \E req0 \in Uninitialized :
       \E st \in {[rsb |-> remainingStreamingBytes, log |-> log, req |-> req0]} :
       \E data \in {SubSeq(input, pos + 1, Len(input))} :
          IF Len(data) # 0 /\ loopIteration(FALSE, data, pos, 0, st).again
          THEN \E it \in {loopIteration(FALSE, data, pos, 0, st)} :
                  /\ pos' = it.at
                  /\ remainingStreamingBytes' = it.st.rsb
                  /\ log' = it.st.log
                  /\ UNCHANGED <<fallback, ret>>
          ELSE Returns(mainLoop(data, pos, st, fallback))
    /\ UNCHANGED <<input, layout, policy, bytewise>>

NextLoop == First \/ Call \/ Iterate

\* an iteration that can be run is run: weak fairness of Iterate, which is
\* WF_vars(Iterate) with ENABLED <<Iterate>>_vars written out as
\* ret = RUNNING.  In a state with ret = RUNNING the action assigns every
\* variable from the one outcome of the iteration, so it can be taken, and by
\* IterationConsumes the step it takes changes pos or ret
FairIterate == []<>(ret # RUNNING) \/ []<><<Iterate>>_vars

SpecLoop == InitLoop /\ [][NextLoop]_vars /\ FairIterate

\* an iteration after which the loop goes on has consumed at least one byte
\* of the input and no more than there is, and has called request_handler
\* once; the one after which the call returns has called it at most once
IterationConsumes ==
    ret = RUNNING =>
        /\ Cardinality(AddedRequests) <= 1
        /\ ret' = RUNNING =>
              /\ pos < pos'
              /\ pos' <= Len(input)
              /\ Cardinality(AddedRequests) = 1

\* the request_handler calls made are no more than the bytes handed to the
\* tokenizer: those of the input up to pos, which count the bytes that the
\* fallback buffer held when the call was made
BoundedRequests == Cardinality(Requests) <= pos /\ pos <= Len(input)

(* C23.  Termination: every iteration of the head-parsing loop consumes at *)
(* least one byte of the input, the request_handler calls of a call are no *)
(* more than the bytes of its input and of the fallback buffer, and a call *)
(* that has entered the loop returns.                                      *)
Termination ==
    /\ [][IterationConsumes]_vars
    /\ []BoundedRequests
    /\ (ret = RUNNING) ~> (ret # RUNNING)

\* a call that found a part of the first head in the fallback buffer has
\* run the loop over the requests behind it and has returned
TerminationWitness ==
    /\ ~bytewise
    /\ pos = Len(input)
    /\ ret = USER
    /\ fallback = <<>>
    /\ Cardinality(Requests) = MaxPipeline
    /\ MaxPipeline > 1

====
